---- MODULE Spec2Model ----
(***************************************************************************)
(* Model of the recipe-chatbot repository:                                 *)
(*   - homeworks/hw2/my_implementation/generate_synthetic_queries.py       *)
(*       call_llm, generate_dimension_tuples, generate_queries_for_tuple,  *)
(*       generate_queries_parallel, save_queries_to_csv, main              *)
(*   - backend/utils.py  get_agent_response                                *)
(*                                                                         *)
(* Four specifications share the module:                                   *)
(*   SpecCall   one call_llm invocation against a scripted completion      *)
(*   Spec       a run of main (thread pools, merge, numbering, CSV), and   *)
(*              a direct call of save_queries_to_csv                       *)
(*   SpecMerge  the merge/deduplication of five sub-results                *)
(*   SpecAgent  get_agent_response over a heap of list objects             *)
(***************************************************************************)
EXTENDS Integers, Sequences, FiniteSets, TLC

VARIABLES
    \* ---- SpecCall: one call_llm frame and the completion endpoint it talks to
    script,          \* what the endpoint answers to the 1st, 2nd, ... call
    calls,           \* outbound completion calls made so far
    sleeps,          \* time.sleep(1) calls made so far
    c_log,           \* the order of the calls and the sleeps
    c_format,        \* response_format argument
    c_attempt,       \* loop variable `attempt`
    c_status,        \* "running" | "returned" | "raised"
    c_value,         \* the returned model instance
    c_e              \* the exception raised to the caller

cvars == <<script, calls, sleeps, c_log, c_format, c_attempt, c_status, c_value, c_e>>

VARIABLES
    \* ---- Spec: a run of generate_synthetic_queries.py
    entry,             \* the function that is called: "main" | "save_queries_to_csv"
    hasKey,            \* "OPENAI_API_KEY" in os.environ
    pc,                \* where the orchestrating thread is
    dimTasks,          \* the 5 futures of generate_dimension_tuples and their call_llm frames
    responses,         \* generate_dimension_tuples: responses
    dimExc,            \* the exception that left the with-block of generate_dimension_tuples
    dimension_tuples,  \* main: dimension_tuples
    qTasks,            \* the futures of generate_queries_parallel and their frames
    processed,         \* the futures as_completed has already handed out
    all_queries,       \* generate_queries_parallel: all_queries (main: queries)
    query_id,          \* generate_queries_parallel: query_id
    saveArg,           \* argument of a direct call of save_queries_to_csv
    file,              \* OUTPUT_CSV_PATH: NoFile, or the rows written
    writes,            \* number of writes to OUTPUT_CSV_PATH
    printed,           \* the messages printed so far
    exc                \* the exception that left the called function

pvars == <<entry, hasKey, pc, dimTasks, responses, dimExc, dimension_tuples, qTasks,
           processed, all_queries, query_id, saveArg, file, writes, printed, exc>>

VARIABLES
    \* ---- SpecMerge: lines 162-177 of generate_dimension_tuples on given sub-results
    m_pc,              \* "start" | "merged" | "reordered" | "again"
    m_responses,       \* responses: the five DimensionTuplesList instances
    m_unique,          \* unique_tuples
    m_second           \* unique_tuples of a second run of the merge

mvars == <<m_pc, m_responses, m_unique, m_second>>

VARIABLES
    \* ---- SpecAgent: backend/utils.py, get_agent_response and its caller
    heap,              \* the list objects: heap[r] is the content of the list with reference r
    a_messages,        \* the caller's reference to its history
    a_before,          \* the content of the caller's history when it made the call
    a_sent,            \* the messages litellm.completion was given
    a_returned,        \* the reference get_agent_response returned (0: none)
    a_exc,             \* the exception that left get_agent_response
    a_pc,              \* "ready" | "returned" | "raised"
    a_turns,           \* calls the caller has made
    a_start,           \* the history the caller started the conversation with
    a_calls,           \* calls of litellm.completion made so far
    a_completion_ok    \* whether the last call of litellm.completion answered

avars == <<heap, a_messages, a_before, a_sent, a_returned, a_exc, a_pc, a_turns,
           a_start, a_calls, a_completion_ok>>

vars == <<cvars, pvars, mvars, avars>>

--------------------------------------------------------------------------
(* Bounds *)

\* length of the endpoint's script in SpecCall (one more than call_llm may use)
ScriptLen == 4

\* longest record list handed to a direct call of save_queries_to_csv
MaxSaveLen == 2

\* most tuples the five sub-results of SpecMerge hold together
MaxAllTuples == 4

\* largest common size K of five sub-results of equal size in SpecMerge
MaxBatchK == 2

\* longest history the caller of get_agent_response starts with, and the
\* number of times it feeds the returned history back
MaxHistory == 2
MaxTurns == 2

--------------------------------------------------------------------------
(* Data: DimensionTuple values, batches, query lists *)

T1 == [occasion |-> "brunch", author_style |-> "Eric Kim",
       ingredients |-> <<"tofu", "rice">>, cooking_method |-> "baking"]
\* same fields as T1, ingredients in another order: ingredients is an ordered list
T2 == [occasion |-> "brunch", author_style |-> "Eric Kim",
       ingredients |-> <<"rice", "tofu">>, cooking_method |-> "baking"]
T3 == [occasion |-> "weeknight", author_style |-> "Eric Kim",
       ingredients |-> <<>>, cooking_method |-> "baking"]

TupleValues == {T1, T2, T3}

\* what one dimension sub-request may answer
Batches == {<<T1, T2>>, <<T2, T3, T2>>}

\* what one per-tuple query sub-request may answer
QueryLists == {<<>>, <<"q1">>, <<"q1", "q2", "q3", "q4", "q1">>}

NoValue == [type |-> "None", tuples |-> <<>>, queries |-> <<>>]
NoExc == [kind |-> "none", at |-> 0]
NoFile == [exists |-> FALSE, rows |-> <<>>]

\* class DimensionTuplesList / class QueriesList: the field each schema requires
RequiredField(response_format) ==
    IF response_format = "DimensionTuplesList" THEN "tuples" ELSE "queries"

\* A completion outcome: the endpoint fails (net = FALSE), or answers with a
\* content that is not JSON, or with a JSON object holding one field.
NetworkError == [net |-> FALSE, json |-> FALSE, field |-> "", tuples |-> <<>>, queries |-> <<>>]
Garbage == [net |-> TRUE, json |-> FALSE, field |-> "", tuples |-> <<>>, queries |-> <<>>]
TuplesContent(b) == [net |-> TRUE, json |-> TRUE, field |-> "tuples", tuples |-> b, queries |-> <<>>]
QueriesContent(q) == [net |-> TRUE, json |-> TRUE, field |-> "queries", tuples |-> <<>>, queries |-> q]

Responses ==
    {NetworkError, Garbage}
        \cup {TuplesContent(b) : b \in Batches}
        \cup {QueriesContent(q) : q \in QueryLists}

\* the answers drawn in a run of main: a failed call, an answer of the other
\* schema, or an answer of the schema asked for
DimResponses ==
    {NetworkError, QueriesContent(<<"q1">>)} \cup {TuplesContent(b) : b \in Batches}
QueryResponses ==
    {NetworkError, TuplesContent(<<T1, T2>>)} \cup {QueriesContent(q) : q \in QueryLists}

--------------------------------------------------------------------------
(* call_llm *)

max_retries == 3

\* lines 47-52: completion(...), json.loads(content), response_format(**obj).
\* Gives the parsed instance, or the exception of this attempt.
TryCompletion(response_format, resp, attempt) ==
    IF ~resp.net
    THEN [ok |-> FALSE, value |-> NoValue, e |-> [kind |-> "network", at |-> attempt + 1]]
    ELSE IF ~resp.json
    THEN [ok |-> FALSE, value |-> NoValue, e |-> [kind |-> "json", at |-> attempt + 1]]
    ELSE IF resp.field # RequiredField(response_format)
    THEN [ok |-> FALSE, value |-> NoValue, e |-> [kind |-> "schema", at |-> attempt + 1]]
    ELSE [ok |-> TRUE,
          value |-> [type |-> response_format, tuples |-> resp.tuples, queries |-> resp.queries],
          e |-> NoExc]

\* mutant: the bound of the retry loop off by one
IsLastAttempt_OffByOne(attempt) == attempt = max_retries - 2

\* mutant: the loop makes one attempt more before it raises
IsLastAttempt_OneMore(attempt) == attempt = max_retries

\* the except clause's test (line 54): is this the attempt whose failure is raised
IsLastAttempt(attempt) == attempt = max_retries - 1

\* mutant: the sleep placed before the test of line 54, so also before the raise
call_llm_SleepBeforeRaise(response_format, resp, attempt) ==
    LET r == TryCompletion(response_format, resp, attempt) IN
    IF r.ok
    THEN [next |-> "returned", value |-> r.value, e |-> NoExc, slept |-> FALSE]
    ELSE IF IsLastAttempt(attempt)
    THEN [next |-> "raised", value |-> NoValue, e |-> r.e, slept |-> TRUE]
    ELSE [next |-> "retry", value |-> NoValue, e |-> NoExc, slept |-> TRUE]

\* One iteration of the loop of call_llm (lines 45-56) for loop variable
\* `attempt` and the endpoint's answer resp.
\*   next = "returned": line 52 returned value
\*   next = "raised"  : line 55 raised e
\*   next = "retry"   : line 56 slept, the loop goes on with attempt + 1
call_llm(response_format, resp, attempt) ==
    LET r == TryCompletion(response_format, resp, attempt) IN
    IF r.ok
    THEN [next |-> "returned", value |-> r.value, e |-> NoExc, slept |-> FALSE]
    ELSE IF IsLastAttempt(attempt)
    THEN [next |-> "raised", value |-> NoValue, e |-> r.e, slept |-> FALSE]
    ELSE [next |-> "retry", value |-> NoValue, e |-> NoExc, slept |-> TRUE]

--------------------------------------------------------------------------
(* SpecCall: call_llm against a scripted endpoint *)

RECURSIVE SeqsOfLen(_, _)
SeqsOfLen(S, n) ==
    IF n = 0 THEN {<<>>}
    ELSE {Append(s, x) : s \in SeqsOfLen(S, n - 1), x \in S}

IdleCall ==
    /\ script = <<>>
    /\ calls = 0
    /\ sleeps = 0
    /\ c_log = <<>>
    /\ c_format = "none"
    /\ c_attempt = 0
    /\ c_status = "idle"
    /\ c_value = NoValue
    /\ c_e = NoExc

IdleMerge ==
    /\ m_pc = "idle"
    /\ m_responses = <<>>
    /\ m_unique = <<>>
    /\ m_second = <<>>

IdleAgent ==
    /\ heap = <<>>
    /\ a_messages = 0
    /\ a_before = <<>>
    /\ a_sent = <<>>
    /\ a_returned = 0
    /\ a_exc = NoExc
    /\ a_pc = "idle"
    /\ a_turns = 0
    /\ a_start = <<>>
    /\ a_calls = 0
    /\ a_completion_ok = TRUE

IdlePipeline ==
    /\ entry = "none"
    /\ hasKey = FALSE
    /\ pc = "idle"
    /\ dimTasks = <<>>
    /\ responses = <<>>
    /\ dimExc = NoExc
    /\ dimension_tuples = <<>>
    /\ qTasks = <<>>
    /\ processed = {}
    /\ all_queries = <<>>
    /\ query_id = 0
    /\ saveArg = <<>>
    /\ file = NoFile
    /\ writes = 0
    /\ printed = {}
    /\ exc = NoExc

InitCall ==
    /\ IdlePipeline
    /\ IdleMerge
    /\ IdleAgent
    /\ script \in SeqsOfLen(Responses, ScriptLen)
    /\ c_format \in {"DimensionTuplesList", "QueriesList"}
    /\ calls = 0
    /\ sleeps = 0
    /\ c_log = <<>>
    /\ c_attempt = 0
    /\ c_status = "running"
    /\ c_value = NoValue
    /\ c_e = NoExc

\* the attempt ends the call: return (line 52) or raise (line 55)
CallFinish ==
    /\ c_status = "running"
    /\ c_attempt < max_retries
    /\ calls < Len(script)
    /\ LET r == call_llm(c_format, script[calls + 1], c_attempt) IN
        /\ r.next # "retry"
        /\ calls' = calls + 1
        /\ sleeps' = IF r.slept THEN sleeps + 1 ELSE sleeps
        /\ c_log' = c_log \o (IF r.slept THEN <<"call", "sleep">> ELSE <<"call">>)
        /\ c_status' = r.next
        /\ c_value' = r.value
        /\ c_e' = r.e
        /\ UNCHANGED <<script, c_format, c_attempt>>
        /\ UNCHANGED <<pvars, mvars, avars>>

\* the attempt fails and is not the last: sleep (line 56), next iteration
CallRetry ==
    /\ c_status = "running"
    /\ c_attempt < max_retries
    /\ calls < Len(script)
    /\ LET r == call_llm(c_format, script[calls + 1], c_attempt) IN
        /\ r.next = "retry"
        /\ calls' = calls + 1
        /\ sleeps' = IF r.slept THEN sleeps + 1 ELSE sleeps
        /\ c_log' = c_log \o (IF r.slept THEN <<"call", "sleep">> ELSE <<"call">>)
        /\ c_attempt' = c_attempt + 1
        /\ UNCHANGED <<script, c_format, c_status, c_value, c_e>>
        /\ UNCHANGED <<pvars, mvars, avars>>

NextCall == CallFinish \/ CallRetry

SpecCall == InitCall /\ [][NextCall]_vars

--------------------------------------------------------------------------
(* Serialisation and numbering *)

\* mutant: the serialized form holds the occasion only
model_dump_json_OccasionOnly(t) == <<"{", "occasion", t.occasion, "}">>

\* DimensionTuple.model_dump_json(): the fields in declaration order (lines 18-21)
model_dump_json(t) ==
    <<"{", "occasion", t.occasion, "author_style", t.author_style, "ingredients", "[">>
        \o t.ingredients
        \o <<"]", "cooking_method", t.cooking_method, "}">>

DigitChars == <<"0", "1", "2", "3", "4", "5", "6", "7", "8", "9">>

RECURSIVE Digits(_)
\* the decimal digits of n >= 0, most significant first
Digits(n) ==
    IF n < 10 THEN <<DigitChars[n + 1]>>
    ELSE Append(Digits(n \div 10), DigitChars[(n % 10) + 1])

RECURSIVE ZeroPad(_, _)
ZeroPad(ds, width) ==
    IF Len(ds) >= width THEN ds ELSE ZeroPad(<<"0">> \o ds, width)

\* f"SYN{query_id:03d}" (line 256)
FormatId(n) == <<"S", "Y", "N">> \o ZeroPad(Digits(n), 3)

\* QueryWithDimensions(id=..., query=..., dimension_tuple=...) (lines 255-259),
\* the two other fields at their defaults (lines 27-28)
QueryWithDimensions(n, query, tup) ==
    [id |-> FormatId(n), query |-> query, dimension_tuple |-> tup,
     is_realistic_and_kept |-> 1, notes_for_filtering |-> ""]

\* one row of the DataFrame (lines 276-282)
CsvRow(q) ==
    [id |-> q.id, query |-> q.query,
     dimension_tuple_json |-> model_dump_json(q.dimension_tuple),
     is_realistic_and_kept |-> q.is_realistic_and_kept,
     notes_for_filtering |-> q.notes_for_filtering]

--------------------------------------------------------------------------
(* Thread pools *)

NumSubRequests == 5
DimPoolWorkers == 5
MAX_WORKERS == 5

NewFrame == [status |-> "running", attempt |-> 0, result |-> NoValue, e |-> NoExc,
             failed |-> FALSE]

\* mutant: a future counts as done as soon as it is submitted
Resolved_Always(t) == TRUE

\* Future.done(): the task returned or raised
Resolved(t) == t.status # "running"

\* a pool of max_workers threads runs task i now: it has a thread already, or
\* fewer than max_workers tasks hold one
HasWorker(tasks, i, max_workers) ==
    \/ tasks[i].attempt > 0
    \/ Cardinality({j \in DOMAIN tasks :
                        tasks[j].status = "running" /\ tasks[j].attempt > 0}) < max_workers

\* mutant: shutdown(wait=False), the with-block is left at once
ExecutorExit_NoWait(tasks) == TRUE

\* ThreadPoolExecutor.__exit__: shutdown(wait=True) returns when no task is left running
ExecutorExit(tasks) == \A i \in DOMAIN tasks : Resolved(tasks[i])

--------------------------------------------------------------------------
(* generate_dimension_tuples *)

\* executor.submit(call_llm, messages, DimensionTuplesList): one attempt of the frame
DimTaskStep(t, resp) ==
    LET r == call_llm("DimensionTuplesList", resp, t.attempt) IN
    IF r.next = "retry"
    THEN [t EXCEPT !.attempt = t.attempt + 1]
    ELSE [status |-> r.next, attempt |-> 0, result |-> r.value, e |-> r.e, failed |-> FALSE]

\* mutant: all_tuples is assigned, not extended: the last response's tuples stay
ExtendAll_Assign(rs) == IF rs = <<>> THEN <<>> ELSE rs[Len(rs)].tuples

RECURSIVE ExtendAll(_)
\* lines 163-165: all_tuples.extend(response.tuples) for each response in order
ExtendAll(rs) ==
    IF rs = <<>> THEN <<>>
    ELSE ExtendAll(SubSeq(rs, 1, Len(rs) - 1)) \o rs[Len(rs)].tuples

\* mutant: `seen` is never filled, nothing is recognised as a duplicate
Unique_NothingSeen(all_tuples, seen, unique_tuples) == unique_tuples \o all_tuples

RECURSIVE Unique(_, _, _)
\* lines 166-174: the loop over all_tuples with `seen` and `unique_tuples`
Unique(all_tuples, seen, unique_tuples) ==
    IF all_tuples = <<>> THEN unique_tuples
    ELSE LET tup == Head(all_tuples)
             tuple_str == model_dump_json(tup)
         IN IF tuple_str \notin seen
            THEN Unique(Tail(all_tuples), seen \cup {tuple_str}, Append(unique_tuples, tup))
            ELSE Unique(Tail(all_tuples), seen, unique_tuples)

\* lines 162-177
MergeTuples(rs) == Unique(ExtendAll(rs), {}, <<>>)

\* what generate_dimension_tuples returns once its with-block is left:
\* the merge (line 177), or [] from the except clause (lines 178-180)
DimensionResult(rs, e) == IF e = NoExc THEN MergeTuples(rs) ELSE <<>>

--------------------------------------------------------------------------
(* generate_queries_for_tuple, generate_queries_parallel *)

\* one attempt of the frame of generate_queries_for_tuple (lines 226-231):
\* a raise of call_llm is caught, printed, and [] is returned
generate_queries_for_tuple(t, resp) ==
    LET r == call_llm("QueriesList", resp, t.attempt) IN
    IF r.next = "retry"
    THEN [t EXCEPT !.attempt = t.attempt + 1]
    ELSE IF r.next = "returned"
    THEN [status |-> "returned", attempt |-> 0, result |-> r.value, e |-> NoExc,
          failed |-> FALSE]
    ELSE [status |-> "returned", attempt |-> 0,
          result |-> [type |-> "list", tuples |-> <<>>, queries |-> <<>>],
          e |-> NoExc, failed |-> TRUE]

\* mutant: query_id advanced once per tuple, outside the loop over its queries
AppendQueries_IncrementPerTuple(acc, next_id, queries, tup) ==
    [all_queries |->
        acc \o [i \in 1..Len(queries) |-> QueryWithDimensions(next_id, queries[i], tup)],
     query_id |-> next_id + 1]

RECURSIVE AppendQueries(_, _, _, _)
\* lines 254-260: one record per query, query_id advanced after each
AppendQueries(acc, next_id, queries, tup) ==
    IF queries = <<>> THEN [all_queries |-> acc, query_id |-> next_id]
    ELSE AppendQueries(Append(acc, QueryWithDimensions(next_id, Head(queries), tup)),
                       next_id + 1, Tail(queries), tup)

\* mutant: a future without queries makes the loop start the list over
ProcessFuture_ResetOnEmpty(acc, next_id, fut, tuples, tuple_idx) ==
    IF fut.status = "raised" \/ fut.result.queries = <<>>
    THEN [all_queries |-> <<>>, query_id |-> 1]
    ELSE AppendQueries(acc, next_id, fut.result.queries, tuples[tuple_idx])

\* mutant: the tuple is looked up by the position counted from the other end
ProcessFuture_OtherEnd(acc, next_id, fut, tuples, tuple_idx) ==
    IF fut.status = "raised"
    THEN [all_queries |-> acc, query_id |-> next_id]
    ELSE AppendQueries(acc, next_id, fut.result.queries, tuples[Len(tuples) + 1 - tuple_idx])

\* the body of the as_completed loop for the future of tuple_idx (lines 250-264)
ProcessFuture(acc, next_id, fut, tuples, tuple_idx) ==
    IF fut.status = "raised"
    THEN [all_queries |-> acc, query_id |-> next_id]
    ELSE AppendQueries(acc, next_id, fut.result.queries, tuples[tuple_idx])

--------------------------------------------------------------------------
(* save_queries_to_csv (lines 268-288) *)

\* mutant: the rows are built from the last record to the first
RowsOf_Reversed(queries) ==
    [i \in 1..Len(queries) |-> CsvRow(queries[Len(queries) + 1 - i])]

\* lines 275-284: one row per record, in list order
RowsOf(queries) == [i \in 1..Len(queries) |-> CsvRow(queries[i])]

\* mutant: the empty list is answered with an exception
save_queries_to_csv_Raises(queries) ==
    IF queries = <<>>
    THEN /\ exc' = [kind |-> "EmptyResultError", at |-> 0]
         /\ UNCHANGED <<file, writes, printed>>
    ELSE /\ file' = [exists |-> TRUE, rows |-> RowsOf(queries)]
         /\ writes' = writes + 1
         /\ printed' = printed \cup {"Saved"}
         /\ UNCHANGED exc

\* mutant: the test of line 270 is missing
save_queries_to_csv_NoGuard(queries) ==
    /\ file' = [exists |-> TRUE, rows |-> RowsOf(queries)]
    /\ writes' = writes + 1
    /\ printed' = printed \cup {"Saved"}
    /\ UNCHANGED exc

save_queries_to_csv(queries) ==
    IF queries = <<>>
    THEN /\ printed' = printed \cup {"No queries to save."}
         /\ UNCHANGED <<file, writes, exc>>
    ELSE /\ file' = [exists |-> TRUE, rows |-> RowsOf(queries)]
         /\ writes' = writes + 1
         /\ printed' = printed \cup {"Saved"}
         /\ UNCHANGED exc

--------------------------------------------------------------------------
(* Spec: main, and a direct call of save_queries_to_csv *)

SaveRecords ==
    {QueryWithDimensions(n, q, t) : n \in 1..2, q \in {"q1", "q2"}, t \in {T1, T3}}

RECURSIVE SeqsUpTo(_, _)
SeqsUpTo(S, n) ==
    IF n = 0 THEN {<<>>}
    ELSE SeqsUpTo(S, n - 1) \cup SeqsOfLen(S, n)

Init ==
    /\ IdleCall
    /\ IdleMerge
    /\ IdleAgent
    /\ entry \in {"main", "save_queries_to_csv"}
    /\ IF entry = "main"
       THEN /\ hasKey \in BOOLEAN
            /\ saveArg = <<>>
       ELSE /\ hasKey = TRUE
            /\ saveArg \in SeqsUpTo(SaveRecords, MaxSaveLen)
    /\ pc = "start"
    /\ dimTasks = <<>>
    /\ responses = <<>>
    /\ dimExc = NoExc
    /\ dimension_tuples = <<>>
    /\ qTasks = <<>>
    /\ processed = {}
    /\ all_queries = <<>>
    /\ query_id = 0
    /\ file = NoFile
    /\ writes = 0
    /\ printed = {}
    /\ exc = NoExc

\* mutant: main without the credential gate of lines 292-294
MainStart_NoGate ==
    /\ entry = "main"
    /\ pc = "start"
    /\ dimTasks' = [i \in 1..NumSubRequests |-> NewFrame]
    /\ pc' = "dim_gather"
    /\ UNCHANGED <<entry, hasKey, responses, dimExc, dimension_tuples, qTasks, processed,
                   all_queries, query_id, saveArg, file, writes, printed, exc>>
    /\ UNCHANGED <<cvars, mvars, avars>>

\* main, lines 292-300: the credential gate, then generate_dimension_tuples
\* submits its five tasks (lines 151-155)
MainStart ==
    /\ entry = "main"
    /\ pc = "start"
    /\ IF ~hasKey
       THEN /\ printed' = printed \cup {"Error: OPENAI_API_KEY environment variable not set."}
            /\ pc' = "done"
            /\ UNCHANGED dimTasks
       ELSE /\ dimTasks' = [i \in 1..NumSubRequests |-> NewFrame]
            /\ pc' = "dim_gather"
            /\ UNCHANGED printed
    /\ UNCHANGED <<entry, hasKey, responses, dimExc, dimension_tuples, qTasks, processed,
                   all_queries, query_id, saveArg, file, writes, exc>>
    /\ UNCHANGED <<cvars, mvars, avars>>

\* a worker thread of the first pool makes one attempt of call_llm
DimAttempt(i, resp) ==
    /\ pc \in {"dim_gather", "dim_exit"}
    /\ i \in DOMAIN dimTasks
    /\ dimTasks[i].status = "running"
    /\ HasWorker(dimTasks, i, DimPoolWorkers)
    /\ dimTasks' = [dimTasks EXCEPT ![i] = DimTaskStep(dimTasks[i], resp)]
    /\ UNCHANGED <<entry, hasKey, pc, responses, dimExc, dimension_tuples, qTasks, processed,
                   all_queries, query_id, saveArg, file, writes, printed, exc>>
    /\ UNCHANGED <<cvars, mvars, avars>>

\* mutant: the futures are gathered from the last submitted to the first
DimGather_LastFirst ==
    /\ pc = "dim_gather"
    /\ LET fut == dimTasks[NumSubRequests - Len(responses)] IN
        /\ Resolved(fut)
        /\ IF fut.status = "returned"
           THEN /\ responses' = Append(responses, fut.result)
                /\ pc' = IF Len(responses) + 1 = NumSubRequests THEN "dim_exit" ELSE "dim_gather"
                /\ UNCHANGED dimExc
           ELSE /\ dimExc' = fut.e
                /\ pc' = "dim_exit"
                /\ UNCHANGED responses
    /\ UNCHANGED <<entry, hasKey, dimTasks, dimension_tuples, qTasks, processed,
                   all_queries, query_id, saveArg, file, writes, printed, exc>>
    /\ UNCHANGED <<cvars, mvars, avars>>

\* lines 159-160: future.result() of the next future in submission order
DimGather ==
    /\ pc = "dim_gather"
    /\ LET fut == dimTasks[Len(responses) + 1] IN
        /\ Resolved(fut)
        /\ IF fut.status = "returned"
           THEN /\ responses' = Append(responses, fut.result)
                /\ pc' = IF Len(responses) + 1 = NumSubRequests THEN "dim_exit" ELSE "dim_gather"
                /\ UNCHANGED dimExc
           ELSE /\ dimExc' = fut.e
                /\ pc' = "dim_exit"
                /\ UNCHANGED responses
    /\ UNCHANGED <<entry, hasKey, dimTasks, dimension_tuples, qTasks, processed,
                   all_queries, query_id, saveArg, file, writes, printed, exc>>
    /\ UNCHANGED <<cvars, mvars, avars>>

\* the with-block is left (the executor is shut down), then lines 162-180:
\* generate_dimension_tuples is at its return statement
DimReturn ==
    /\ pc = "dim_exit"
    /\ ExecutorExit(dimTasks)
    /\ dimension_tuples' = DimensionResult(responses, dimExc)
    /\ printed' = printed \cup
            (IF dimExc = NoExc THEN {} ELSE {"Error generating dimension tuples"})
    /\ pc' = "dim_return"
    /\ UNCHANGED <<entry, hasKey, dimTasks, responses, dimExc, qTasks, processed,
                   all_queries, query_id, saveArg, file, writes, exc>>
    /\ UNCHANGED <<cvars, mvars, avars>>

\* main, lines 301-308, and the submissions of generate_queries_parallel (lines 235-245)
MainAfterDim ==
    /\ pc = "dim_return"
    /\ dimTasks' = <<>>
    /\ responses' = <<>>
    /\ dimExc' = NoExc
    /\ IF dimension_tuples = <<>>
       THEN /\ printed' = printed \cup {"Failed to generate dimension tuples. Exiting."}
            /\ pc' = "done"
            /\ UNCHANGED <<qTasks, all_queries, query_id>>
       ELSE /\ qTasks' = [i \in 1..Len(dimension_tuples) |-> NewFrame]
            /\ all_queries' = <<>>
            /\ query_id' = 1
            /\ pc' = "q_loop"
            /\ UNCHANGED printed
    /\ UNCHANGED <<entry, hasKey, dimension_tuples, processed, saveArg, file, writes, exc>>
    /\ UNCHANGED <<cvars, mvars, avars>>

\* mutant: the worker numbers and records its queries itself when it returns
QueryAttempt_NumbersInWorker(i, resp) ==
    /\ pc = "q_loop"
    /\ i \in DOMAIN qTasks
    /\ qTasks[i].status = "running"
    /\ HasWorker(qTasks, i, MAX_WORKERS)
    /\ qTasks' = [qTasks EXCEPT ![i] = generate_queries_for_tuple(qTasks[i], resp)]
    /\ printed' = printed \cup
            (IF qTasks'[i].failed THEN {"Error generating queries for tuple"} ELSE {})
    /\ LET r == AppendQueries(all_queries, query_id, qTasks'[i].result.queries,
                              dimension_tuples[i]) IN
        /\ all_queries' = r.all_queries
        /\ query_id' = r.query_id
    /\ UNCHANGED <<entry, hasKey, pc, dimTasks, responses, dimExc, dimension_tuples, processed,
                   saveArg, file, writes, exc>>
    /\ UNCHANGED <<cvars, mvars, avars>>

\* a worker thread of the second pool makes one attempt of generate_queries_for_tuple
QueryAttempt(i, resp) ==
    /\ pc = "q_loop"
    /\ i \in DOMAIN qTasks
    /\ qTasks[i].status = "running"
    /\ HasWorker(qTasks, i, MAX_WORKERS)
    /\ qTasks' = [qTasks EXCEPT ![i] = generate_queries_for_tuple(qTasks[i], resp)]
    /\ printed' = printed \cup
            (IF qTasks'[i].failed THEN {"Error generating queries for tuple"} ELSE {})
    /\ UNCHANGED <<entry, hasKey, pc, dimTasks, responses, dimExc, dimension_tuples, processed,
                   all_queries, query_id, saveArg, file, writes, exc>>
    /\ UNCHANGED <<cvars, mvars, avars>>

\* as_completed hands out a finished future; lines 250-264 handle it
QueryProcess(i) ==
    /\ pc = "q_loop"
    /\ i \in DOMAIN qTasks
    /\ i \notin processed
    /\ Resolved(qTasks[i])
    /\ LET r == ProcessFuture(all_queries, query_id, qTasks[i], dimension_tuples, i) IN
        /\ all_queries' = r.all_queries
        /\ query_id' = r.query_id
    /\ processed' = processed \cup {i}
    /\ UNCHANGED <<entry, hasKey, pc, dimTasks, responses, dimExc, dimension_tuples, qTasks,
                   saveArg, file, writes, printed, exc>>
    /\ UNCHANGED <<cvars, mvars, avars>>

\* as_completed is exhausted, the with-block is left:
\* generate_queries_parallel is at its return statement (line 266)
QueryReturn ==
    /\ pc = "q_loop"
    /\ processed = DOMAIN qTasks
    /\ ExecutorExit(qTasks)
    /\ pc' = "q_return"
    /\ UNCHANGED <<entry, hasKey, dimTasks, responses, dimExc, dimension_tuples, qTasks,
                   processed, all_queries, query_id, saveArg, file, writes, printed, exc>>
    /\ UNCHANGED <<cvars, mvars, avars>>

\* main, lines 310-316
MainSave ==
    /\ pc = "q_return"
    /\ qTasks' = <<>>
    /\ processed' = {}
    /\ IF all_queries # <<>>
       THEN save_queries_to_csv(all_queries)
       ELSE /\ printed' = printed \cup {"Failed to generate any queries."}
            /\ UNCHANGED <<file, writes, exc>>
    /\ pc' = "done"
    /\ UNCHANGED <<entry, hasKey, dimTasks, responses, dimExc, dimension_tuples,
                   all_queries, query_id, saveArg>>
    /\ UNCHANGED <<cvars, mvars, avars>>

\* save_queries_to_csv(saveArg) called on its own
SaveCall ==
    /\ entry = "save_queries_to_csv"
    /\ pc = "start"
    /\ save_queries_to_csv(saveArg)
    /\ pc' = "done"
    /\ UNCHANGED <<entry, hasKey, dimTasks, responses, dimExc, dimension_tuples, qTasks,
                   processed, all_queries, query_id, saveArg>>
    /\ UNCHANGED <<cvars, mvars, avars>>

Next ==
    \/ MainStart
    \/ \E i \in 1..NumSubRequests, resp \in DimResponses : DimAttempt(i, resp)
    \/ DimGather
    \/ DimReturn
    \/ MainAfterDim
    \/ \E i \in DOMAIN qTasks, resp \in QueryResponses : QueryAttempt(i, resp)
    \/ \E i \in DOMAIN qTasks : QueryProcess(i)
    \/ QueryReturn
    \/ MainSave
    \/ SaveCall

Spec == Init /\ [][Next]_vars

\* every outbound call eventually returns or fails, and every thread that can
\* take a step eventually takes one
FairSpec == Spec /\ WF_vars(Next)

--------------------------------------------------------------------------
(* SpecMerge: the merge of generate_dimension_tuples on given sub-results *)

DimensionTuplesList(b) == [type |-> "DimensionTuplesList", tuples |-> b, queries |-> <<>>]

\* the five sub-results that cut all into consecutive pieces at cuts[1..4]
SplitInto(all, cuts) ==
    [i \in 1..NumSubRequests |->
        DimensionTuplesList(
            SubSeq(all,
                   (IF i = 1 THEN 0 ELSE cuts[i - 1]) + 1,
                   IF i = NumSubRequests THEN Len(all) ELSE cuts[i]))]

InitMerge ==
    /\ IdleCall
    /\ IdlePipeline
    /\ IdleAgent
    /\ m_pc = "start"
    /\ \/ \E all \in SeqsUpTo(TupleValues, MaxAllTuples) :
            \E cuts \in [1..(NumSubRequests - 1) -> 0..Len(all)] :
                /\ \A i \in 1..(NumSubRequests - 2) : cuts[i] <= cuts[i + 1]
                /\ m_responses = SplitInto(all, cuts)
       \/ \E K \in 1..MaxBatchK :
            \E batches \in [1..NumSubRequests -> SeqsOfLen({T1, T2}, K)] :
                m_responses = [i \in 1..NumSubRequests |-> DimensionTuplesList(batches[i])]
    /\ m_unique = <<>>
    /\ m_second = <<>>

\* lines 162-177 on m_responses
MergeRun ==
    /\ m_pc = "start"
    /\ m_unique' = MergeTuples(m_responses)
    /\ m_pc' = "merged"
    /\ UNCHANGED <<m_responses, m_second>>
    /\ UNCHANGED <<cvars, pvars, avars>>

\* responses with the i-th and the j-th sub-result exchanged
Exchanged(rs, i, j) ==
    [k \in DOMAIN rs |-> IF k = i THEN rs[j] ELSE IF k = j THEN rs[i] ELSE rs[k]]

\* lines 162-177 on the same sub-results, gathered in another order
MergeReordered(i, j) ==
    /\ m_pc = "merged"
    /\ i < j
    /\ m_second' = MergeTuples(Exchanged(m_responses, i, j))
    /\ m_pc' = "reordered"
    /\ UNCHANGED <<m_responses, m_unique>>
    /\ UNCHANGED <<cvars, pvars, avars>>

\* lines 162-177 on the merged result
MergeAgain ==
    /\ m_pc = "merged"
    /\ m_second' = MergeTuples(<<DimensionTuplesList(m_unique)>>)
    /\ m_pc' = "again"
    /\ UNCHANGED <<m_responses, m_unique>>
    /\ UNCHANGED <<cvars, pvars, avars>>

NextMerge ==
    \/ MergeRun
    \/ \E i, j \in 1..NumSubRequests : MergeReordered(i, j)
    \/ MergeAgain

SpecMerge == InitMerge /\ [][NextMerge]_vars

--------------------------------------------------------------------------
(* get_agent_response (backend/utils.py) *)

\* contents are sequences of characters
SYSTEM_PROMPT == <<"c", "h", "e", "f">>

SystemEntry == [role |-> "system", content |-> SYSTEM_PROMPT]

Whitespace == {" ", "\n", "\t"}

RECURSIVE LStrip(_)
LStrip(cs) ==
    IF cs # <<>> /\ Head(cs) \in Whitespace THEN LStrip(Tail(cs)) ELSE cs

RECURSIVE RStrip(_)
RStrip(cs) ==
    IF cs # <<>> /\ cs[Len(cs)] \in Whitespace THEN RStrip(SubSeq(cs, 1, Len(cs) - 1)) ELSE cs

\* str.strip() (line 98)
Strip(cs) == RStrip(LStrip(cs))

\* mutant: the system prompt is added on every call
NeedsSystemPrompt_Always(messages) == TRUE

\* mutant: the system prompt is added to an empty history only
NeedsSystemPrompt_OnlyEmpty(messages) == messages = <<>>

\* the test of line 86
NeedsSystemPrompt(messages) == messages = <<>> \/ messages[1].role # "system"

\* lines 86-89: `[...] + messages` makes a new list, `current_messages = messages`
\* makes a second reference to the caller's list
CurrentMessages(h, m) ==
    IF NeedsSystemPrompt(h[m])
    THEN [heap |-> Append(h, <<SystemEntry>> \o h[m]), ref |-> Len(h) + 1]
    ELSE [heap |-> h, ref |-> m]

\* mutant: the reply is appended to current_messages in place, which is returned
get_agent_response_InPlace(h, m, completion) ==
    LET cur == CurrentMessages(h, m) IN
    IF ~completion.ok
    THEN [heap |-> h, sent |-> cur.heap[cur.ref], returned |-> 0, exc |-> completion.e,
          calls |-> 1]
    ELSE [heap |-> [cur.heap EXCEPT ![cur.ref] =
                        Append(@, [role |-> "assistant", content |-> Strip(completion.content)])],
          sent |-> cur.heap[cur.ref],
          returned |-> cur.ref,
          exc |-> NoExc,
          calls |-> 1]

\* mutant: a failure of litellm.completion is caught and answered with the
\* history and an apology
get_agent_response_Swallow(h, m, completion) ==
    LET cur == CurrentMessages(h, m)
        reply == IF completion.ok THEN Strip(completion.content) ELSE <<"s", "o", "r", "r", "y">>
    IN [heap |-> Append(cur.heap,
                        Append(cur.heap[cur.ref], [role |-> "assistant", content |-> reply])),
        sent |-> cur.heap[cur.ref],
        returned |-> Len(cur.heap) + 1,
        exc |-> NoExc,
        calls |-> 1]

\* get_agent_response(messages) with m the reference `messages`, on heap h, when
\* litellm.completion answers `completion` (lines 85-103)
get_agent_response(h, m, completion) ==
    LET cur == CurrentMessages(h, m) IN
    IF ~completion.ok
    THEN [heap |-> h, sent |-> cur.heap[cur.ref], returned |-> 0, exc |-> completion.e,
          calls |-> 1]
    ELSE LET assistant_reply_content == Strip(completion.content)
             updated_messages ==
                Append(cur.heap[cur.ref],
                       [role |-> "assistant", content |-> assistant_reply_content])
         IN [heap |-> Append(cur.heap, updated_messages),
             sent |-> cur.heap[cur.ref],
             returned |-> Len(cur.heap) + 1,
             exc |-> NoExc,
             calls |-> 1]

--------------------------------------------------------------------------
(* SpecAgent: a caller of get_agent_response *)

Roles == {"system", "user", "assistant"}

UserEntry == [role |-> "user", content |-> <<"h", "i">>]

Entries == {[role |-> r, content |-> <<"h", "i">>] : r \in Roles}

\* what litellm.completion may do: raise, or answer with a content
Completions ==
    {[ok |-> FALSE, content |-> <<>>, e |-> [kind |-> "litellm", at |-> 1]]}
        \cup {[ok |-> TRUE, content |-> c, e |-> NoExc] :
                c \in {<<" ", "o", "k", "\n">>, <<"n", "o">>}}

InitAgent ==
    /\ IdleCall
    /\ IdlePipeline
    /\ IdleMerge
    /\ \E hist \in SeqsUpTo(Entries, MaxHistory) :
        /\ heap = <<hist>>
        /\ a_before = hist
        /\ a_start = hist
    /\ a_calls = 0
    /\ a_completion_ok = TRUE
    /\ a_messages = 1
    /\ a_sent = <<>>
    /\ a_returned = 0
    /\ a_exc = NoExc
    /\ a_pc = "ready"
    /\ a_turns = 0

\* the caller calls get_agent_response(messages)
AgentCall(completion) ==
    /\ a_pc = "ready"
    /\ LET r == get_agent_response(heap, a_messages, completion) IN
        /\ heap' = r.heap
        /\ a_sent' = r.sent
        /\ a_returned' = r.returned
        /\ a_exc' = r.exc
        /\ a_pc' = IF r.exc = NoExc THEN "returned" ELSE "raised"
        /\ a_calls' = a_calls + r.calls
    /\ a_completion_ok' = completion.ok
    /\ a_turns' = a_turns + 1
    /\ UNCHANGED <<a_messages, a_before, a_start>>
    /\ UNCHANGED <<cvars, pvars, mvars>>

\* the caller adds the user's next message to the history it got back, drops
\* its other lists, and is ready to call again
CallerNextTurn ==
    /\ a_pc = "returned"
    /\ a_turns < MaxTurns
    /\ LET next_history == Append(heap[a_returned], UserEntry) IN
        /\ heap' = <<next_history>>
        /\ a_before' = next_history
    /\ a_messages' = 1
    /\ a_sent' = <<>>
    /\ a_returned' = 0
    /\ a_pc' = "ready"
    /\ UNCHANGED <<a_exc, a_turns, a_start, a_calls, a_completion_ok>>
    /\ UNCHANGED <<cvars, pvars, mvars>>

NextAgent ==
    \/ \E completion \in Completions : AgentCall(completion)
    \/ CallerNextTurn

SpecAgent == InitAgent /\ [][NextAgent]_vars

--------------------------------------------------------------------------
(* Properties of call_llm (SpecCall) *)

\* the endpoint's answer makes an attempt for response_format fail
AttemptFails(response_format, resp) ==
    \/ ~resp.net
    \/ ~resp.json
    \/ resp.field # RequiredField(response_format)

FailureKind(resp) ==
    IF ~resp.net THEN "network" ELSE IF ~resp.json THEN "json" ELSE "schema"

ParsedResult(response_format, resp) ==
    [type |-> response_format, tuples |-> resp.tuples, queries |-> resp.queries]

CallEnded == c_status \in {"returned", "raised"}

\* C1: for k in {0,1,2}, when the first k attempts fail and attempt k+1 succeeds,
\* call_llm returns the parsed result of attempt k+1 after exactly k+1 calls.
C1_RetryUntilSuccess ==
    \A k \in 0..2 :
        ( /\ CallEnded
          /\ \A j \in 1..k : AttemptFails(c_format, script[j])
          /\ ~AttemptFails(c_format, script[k + 1]) )
        => /\ c_status = "returned"
           /\ c_value = ParsedResult(c_format, script[k + 1])
           /\ calls = k + 1

\* fail, fail, succeed: the result came back on the third call
C1_Witness ==
    /\ c_status = "returned"
    /\ calls = 3
    /\ AttemptFails(c_format, script[1])
    /\ AttemptFails(c_format, script[2])
    /\ c_value.type = "DimensionTuplesList"
    /\ c_value.tuples # <<>>

\* C2: when all attempts fail there are exactly 3 calls and never a 4th, one
\* sleep between consecutive calls and none after the last, the exception raised
\* is the third attempt's, and no value is returned.
C2_ExhaustedRetries ==
    /\ calls <= 3
    /\ ( /\ CallEnded
         /\ \A j \in 1..3 : AttemptFails(c_format, script[j]) )
       => /\ c_status = "raised"
          /\ calls = 3
          /\ sleeps = 2
          /\ c_log = <<"call", "sleep", "call", "sleep", "call">>
          /\ c_e = [kind |-> FailureKind(script[3]), at |-> 3]
          /\ c_value = NoValue

\* three failures of three kinds, and the call has ended
C2_Witness ==
    /\ c_status = "raised"
    /\ FailureKind(script[1]) # FailureKind(script[3])
    /\ FailureKind(script[2]) # FailureKind(script[3])
    /\ ~AttemptFails(c_format, script[4])

--------------------------------------------------------------------------
(* Properties of a run of main (Spec) *)

RaisedTasks(tasks) == {i \in DOMAIN tasks : tasks[i].status = "raised"}

\* the results of the futures that returned, in submission order
SucceededResponses(tasks) ==
    LET ok == SelectSeq(tasks, LAMBDA t : t.status = "returned")
    IN [i \in 1..Len(ok) |-> ok[i].result]

\* C3: when one of the 5 dimension sub-requests fails and the others succeed,
\* generate_dimension_tuples returns the deduplicated merge of the tuples of the
\* sub-requests that succeeded.
C3_FailedSubRequestOmitted ==
    (pc = "dim_return" /\ Cardinality(RaisedTasks(dimTasks)) = 1)
        => dimension_tuples = MergeTuples(SucceededResponses(dimTasks))

\* the queries of the records that carry dimension_tuples[i], in list order
QueriesRecordedFor(i) ==
    LET own == SelectSeq(all_queries, LAMBDA q : q.dimension_tuple = dimension_tuples[i])
    IN [j \in 1..Len(own) |-> own[j].query]

\* C4: generate_queries_parallel returns without raising; the output holds all
\* queries of every tuple whose sub-request succeeded, none for a tuple whose
\* sub-request failed, and nothing else.
C4_PartialFailureOutput ==
    pc = "q_return"
        => /\ exc = NoExc
           /\ \A i \in DOMAIN qTasks :
                QueriesRecordedFor(i) =
                    (IF qTasks[i].failed THEN <<>> ELSE qTasks[i].result.queries)
           /\ \A j \in 1..Len(all_queries) :
                \E i \in DOMAIN qTasks :
                    all_queries[j].dimension_tuple = dimension_tuples[i]

\* three tuples, the sub-request of one failed, the two others gave queries
C4_Witness ==
    /\ pc = "q_return"
    /\ Len(dimension_tuples) = 3
    /\ Cardinality({i \in DOMAIN qTasks : qTasks[i].failed}) = 1
    /\ \A i \in DOMAIN qTasks : ~qTasks[i].failed => qTasks[i].result.queries # <<>>
    /\ all_queries # <<>>

DigitValue(c) == CHOOSE d \in 0..9 : DigitChars[d + 1] = c

RECURSIVE ParseDigits(_)
ParseDigits(ds) ==
    IF ds = <<>> THEN 0
    ELSE 10 * ParseDigits(SubSeq(ds, 1, Len(ds) - 1)) + DigitValue(ds[Len(ds)])

\* the number an ID "SYNddd" carries
NumericPart(id) == ParseDigits(SubSeq(id, 4, Len(id)))

\* C5: whatever the order in which the futures are handed out, the numeric parts
\* of the IDs of the records, in list order, are 1, 2, ..., n.
C5_IdsSequential ==
    \A j \in 1..Len(all_queries) :
        /\ SubSeq(all_queries[j].id, 1, 3) = <<"S", "Y", "N">>
        /\ NumericPart(all_queries[j].id) = j

\* the second tuple's future was handed out first, a sub-request failed, one
\* returned no queries, and the numbering passed 10
C5_Witness ==
    /\ pc = "q_return"
    /\ Len(dimension_tuples) = 3
    /\ Len(all_queries) >= 10
    /\ all_queries[1].dimension_tuple = dimension_tuples[2]
    /\ \E i \in DOMAIN qTasks : qTasks[i].failed

SaveEnded == entry = "save_queries_to_csv" /\ pc = "done"

\* C7 as stated: save_queries_to_csv called with zero records raises
\* EmptyResultError.
C7_RaisesEmptyResultError ==
    (SaveEnded /\ saveArg = <<>>) => exc.kind = "EmptyResultError"

\* C7 amended: save_queries_to_csv called with zero records raises nothing; it
\* prints "No queries to save." and returns.
C7_EmptyReturnsQuietly ==
    (SaveEnded /\ saveArg = <<>>)
        => /\ exc = NoExc
           /\ "No queries to save." \in printed

C7_Witness == SaveEnded /\ saveArg = <<>> /\ printed # {}

\* C8: no output file is written when there are zero records: not by
\* save_queries_to_csv with an empty list, and not by a run of main that ends
\* without records, which also ends without raising.
C8_NoWriteWithoutRecords ==
    /\ (SaveEnded /\ saveArg = <<>>) => (writes = 0 /\ file = NoFile)
    /\ (entry = "main" /\ pc = "done" /\ all_queries = <<>>)
            => (writes = 0 /\ file = NoFile /\ exc = NoExc)

\* main ended after query sub-requests that all failed or returned nothing
C8_Witness ==
    /\ entry = "main"
    /\ pc = "done"
    /\ dimension_tuples # <<>>
    /\ all_queries = <<>>
    /\ "Error generating queries for tuple" \in printed

--------------------------------------------------------------------------
(* Properties of the merge (SpecMerge) *)

\* the position of the k-th tuple of the i-th sub-result in the merged sequence
MergedPositions ==
    UNION {{<<i, k>> : k \in DOMAIN m_responses[i].tuples} : i \in DOMAIN m_responses}

Before(p, q) == p[1] < q[1] \/ (p[1] = q[1] /\ p[2] < q[2])

TupleAt(p) == m_responses[p[1]].tuples[p[2]]

\* where t first appears in the merged sequence
FirstAppearance(t) ==
    CHOOSE p \in MergedPositions :
        /\ TupleAt(p) = t
        /\ \A q \in MergedPositions : TupleAt(q) = t => (q = p \/ Before(p, q))

\* C6: the merge output holds every distinct tuple of the merged input, no two
\* tuples of the same canonical serialized form, and lists the tuples in the
\* order of their first appearance in the merged sequence.
C6_MergeDeduplicates ==
    m_pc = "merged"
        => /\ {m_unique[j] : j \in DOMAIN m_unique} = {TupleAt(p) : p \in MergedPositions}
           /\ \A i, j \in DOMAIN m_unique :
                i # j => model_dump_json(m_unique[i]) # model_dump_json(m_unique[j])
           /\ \A i, j \in DOMAIN m_unique :
                i < j => Before(FirstAppearance(m_unique[i]), FirstAppearance(m_unique[j]))

\* three distinct tuples, one of them twice, in two or more sub-results
C6_Witness ==
    /\ m_pc = "merged"
    /\ Len(m_unique) = 3
    /\ Cardinality(MergedPositions) = 4
    /\ m_unique[1] = T2
    /\ Len(m_responses[1].tuples) < 4
    /\ Len(m_responses[5].tuples) > 0

--------------------------------------------------------------------------
(* Properties of get_agent_response (SpecAgent) *)

AgentEnded == a_pc \in {"returned", "raised"}

LacksLeadingSystem(messages) == messages = <<>> \/ messages[1].role # "system"

IsPrefix(p, s) == Len(p) <= Len(s) /\ SubSeq(s, 1, Len(p)) = p

SystemCount(messages) ==
    Cardinality({i \in DOMAIN messages : messages[i].role = "system"})

\* C9: for a history that is empty or does not begin with a system entry, what
\* is sent to the model and what is returned begin with the injected system
\* entry followed by the input entries in order; for a history that begins with
\* a system entry, no system entry is added.
C9_SystemEntryInjection ==
    /\ AgentEnded
        => IF LacksLeadingSystem(a_before)
           THEN a_sent = <<SystemEntry>> \o a_before
           ELSE a_sent = a_before
    /\ a_pc = "returned"
        => IF LacksLeadingSystem(a_before)
           THEN /\ IsPrefix(<<SystemEntry>> \o a_before, heap[a_returned])
                /\ SystemCount(heap[a_returned]) = SystemCount(a_before) + 1
           ELSE /\ IsPrefix(a_before, heap[a_returned])
                /\ SystemCount(heap[a_returned]) = SystemCount(a_before)

\* a first call on a history that begins with a user entry
C9_Witness ==
    /\ a_pc = "returned"
    /\ a_turns = 1
    /\ Len(a_before) = 2
    /\ a_before[1].role = "user"
    /\ heap[a_returned][1] = SystemEntry

\* C10: get_agent_response does not mutate the caller's list, whether the
\* system entry was there or not, and returns another list object.
C10_InputNotMutated ==
    /\ AgentEnded => heap[a_messages] = a_before
    /\ a_pc = "returned" => a_returned # a_messages

\* a call on a history that begins with a system entry has returned
C10_Witness ==
    /\ a_pc = "returned"
    /\ a_before # <<>>
    /\ a_before[1].role = "system"
    /\ Len(heap[a_returned]) = Len(a_before) + 1

RoleCount(messages, role) ==
    Cardinality({i \in DOMAIN messages : messages[i].role = role})

\* the conversation started without assistant entries, and without a system
\* entry anywhere but in front
FreshStart ==
    /\ RoleCount(a_start, "assistant") = 0
    /\ \A i \in DOMAIN a_start : a_start[i].role = "system" => i = 1

\* C11: a successful turn returns what was sent to the model with one entry
\* appended at the end, of role assistant; a conversation fed back turn after
\* turn with one user entry added holds, after n turns, n assistant entries and
\* one system entry, in front.
C11_OneAssistantPerTurn ==
    a_pc = "returned"
        => LET out == heap[a_returned] IN
           /\ Len(out) = Len(a_sent) + 1
           /\ SubSeq(out, 1, Len(a_sent)) = a_sent
           /\ out[Len(out)].role = "assistant"
           /\ FreshStart
                => /\ RoleCount(out, "assistant") = a_turns
                   /\ RoleCount(out, "system") = 1
                   /\ out[1].role = "system"

\* the second turn of a conversation that started with one user entry
C11_Witness ==
    /\ a_pc = "returned"
    /\ a_turns = 2
    /\ a_start = <<UserEntry>>
    /\ Len(heap[a_returned]) = 5

\* C15: get_agent_response makes one model call per turn; when the call fails
\* the error reaches the caller, nothing is returned, and there is no retry.
C15_OneCallNoSwallow ==
    /\ a_calls = a_turns
    /\ (a_turns > 0 /\ ~a_completion_ok)
        => /\ a_pc = "raised"
           /\ a_exc = [kind |-> "litellm", at |-> 1]
           /\ a_returned = 0
           /\ heap = <<a_before>>
    /\ a_pc = "returned" => (a_exc = NoExc /\ a_completion_ok)

\* the second turn's model call failed
C15_Witness ==
    /\ a_pc = "raised"
    /\ a_turns = 2
    /\ a_calls = 2

--------------------------------------------------------------------------
(* Further properties of a run of main (Spec) *)

\* C12: when the credential variable is absent, main ends without raising, no
\* sub-request is ever submitted (so no outbound call is made) and no file is
\* written.
C12_NoKeyNoActivity ==
    (entry = "main" /\ ~hasKey)
        => /\ pc \in {"start", "done"}
           /\ dimTasks = <<>>
           /\ qTasks = <<>>
           /\ dimension_tuples = <<>>
           /\ writes = 0
           /\ file = NoFile
           /\ exc = NoExc

\* main has ended on the missing credential
C12_Witness ==
    /\ entry = "main"
    /\ ~hasKey
    /\ pc = "done"
    /\ "Error: OPENAI_API_KEY environment variable not set." \in printed

--------------------------------------------------------------------------
(* Further properties of the merge (SpecMerge) *)

Range(seq) == {seq[i] : i \in DOMAIN seq}

\* C13: merging the same sub-results in another order gives the same set of
\* unique tuples, and merging the merged result again gives it back unchanged.
C13_MergeIdempotent ==
    /\ m_pc = "reordered" => Range(m_second) = Range(m_unique)
    /\ m_pc = "again" => m_second = m_unique

\* two sub-results exchanged: the same tuples come out, in another order
C13_Witness ==
    /\ m_pc = "reordered"
    /\ m_second # m_unique
    /\ Len(m_unique) = 3
    /\ Cardinality(MergedPositions) > 3

\* all sub-results hold K tuples
EqualBatches(K) == \A i \in DOMAIN m_responses : Len(m_responses[i].tuples) = K

\* C14: when the 5 sub-results hold K tuples each, the number of unique tuples
\* is at most 5K and at least the number of distinct tuples of any one batch.
C14_MergeSizeBounds ==
    \A K \in 0..(MaxBatchK + MaxAllTuples) :
        (m_pc = "merged" /\ EqualBatches(K))
            => /\ Len(m_unique) <= NumSubRequests * K
               /\ \A i \in DOMAIN m_responses :
                    Len(m_unique) >= Cardinality(Range(m_responses[i].tuples))

\* five batches of two: one holds one tuple twice, one holds two tuples
C14_Witness ==
    /\ m_pc = "merged"
    /\ EqualBatches(2)
    /\ \E i \in DOMAIN m_responses : Cardinality(Range(m_responses[i].tuples)) = 1
    /\ \E i \in DOMAIN m_responses : Cardinality(Range(m_responses[i].tuples)) = 2
    /\ Len(m_unique) = 2

--------------------------------------------------------------------------
(* The two pools of a run of main (Spec, FairSpec) *)

Running(tasks) == {i \in DOMAIN tasks : tasks[i].status = "running"}

\* C16 as stated: while a per-tuple task is unresolved no record is emitted and
\* the ID counter is not advanced.
C16_NumberingAfterAllResolved ==
    (entry = "main" /\ pc = "q_loop" /\ Running(qTasks) # {})
        => /\ all_queries = <<>>
           /\ query_id = 1

\* C16: a record is numbered only when the future of its own tuple is handled,
\* after that task has resolved; tasks of other tuples may still be running.
\* The counter is one more than the number of records.
C16_NumberingAfterOwnTask ==
    (entry = "main" /\ pc \in {"q_loop", "q_return"})
        => /\ \A i \in processed : qTasks[i].status = "returned"
           /\ \A j \in DOMAIN all_queries :
                \E i \in processed :
                    /\ all_queries[j].dimension_tuple = dimension_tuples[i]
                    /\ all_queries[j].query \in Range(qTasks[i].result.queries)
           /\ query_id = 1 + Len(all_queries)

\* records are numbered while the task of another tuple has not been started
C16_Witness ==
    /\ entry = "main"
    /\ pc = "q_loop"
    /\ all_queries # <<>>
    /\ query_id > 1
    /\ \E i \in Running(qTasks) : qTasks[i].attempt = 0

\* a step of a worker of the second pool leaves the counter and the list alone;
\* the two change only when the orchestrating thread handles a future
WorkerLeavesCounter ==
    /\ (pc = "q_loop" /\ qTasks' # qTasks)
            => (all_queries' = all_queries /\ query_id' = query_id)
    /\ (all_queries' # all_queries \/ query_id' # query_id)
            => (qTasks' = qTasks \/ qTasks = <<>>)

NoDuplicateId ==
    \A j, k \in DOMAIN all_queries : all_queries[j].id = all_queries[k].id => j = k

\* C17: no worker task writes the ID counter or the result list, and no
\* interleaving of the workers loses an update or gives one ID twice.
C17_CounterOwnedByOrchestrator ==
    /\ [][WorkerLeavesCounter]_vars
    /\ [](NoDuplicateId /\ (pc \in {"q_loop", "q_return"} => query_id = 1 + Len(all_queries)))

\* records were numbered while a worker was in the middle of its retries
C17_Witness ==
    /\ entry = "main"
    /\ pc = "q_loop"
    /\ Len(all_queries) = 5
    /\ \E i \in Running(qTasks) : qTasks[i].attempt = 2

\* C18: generate_dimension_tuples and generate_queries_parallel are at their
\* return, by value or by failure, only when none of their tasks is running.
C18_GatherAll ==
    /\ pc = "dim_return" => (Len(dimTasks) = NumSubRequests /\ Running(dimTasks) = {})
    /\ pc = "q_return"
        => (Len(qTasks) = Len(dimension_tuples) /\ Running(qTasks) = {})

\* the first sub-request failed, the later ones finished, then the step returned
C18_Witness ==
    /\ pc = "dim_return"
    /\ dimExc # NoExc
    /\ dimTasks[1].status = "raised"
    /\ \A i \in 2..NumSubRequests : dimTasks[i].status = "returned"
    /\ dimension_tuples = <<>>

\* the step of main that writes the file
WriteStep ==
    (entry = "main" /\ writes' # writes)
        => /\ writes = 0
           /\ writes' = 1
           /\ pc = "q_return"
           /\ dimTasks = <<>>
           /\ Running(qTasks) = {}
           /\ processed = DOMAIN qTasks
           /\ all_queries' = all_queries

\* the table holds one row per record, in the order of the IDs
RowsInEmissionOrder ==
    /\ Len(file.rows) = Len(all_queries)
    /\ \A j \in DOMAIN file.rows :
        /\ file.rows[j].id = all_queries[j].id
        /\ file.rows[j].query = all_queries[j].query
        /\ file.rows[j].dimension_tuple_json = model_dump_json(all_queries[j].dimension_tuple)
        /\ NumericPart(file.rows[j].id) = j

\* C19: main writes the file at most once, when no task of either pool is left,
\* with one row per emitted record in emission order.
C19_WrittenOnceAtEnd ==
    /\ [][WriteStep]_vars
    /\ []((entry = "main" /\ file.exists) => (pc = "done" /\ writes = 1 /\ RowsInEmissionOrder))

\* the file of a run in which a tuple gave no queries and another gave five
C19_Witness ==
    /\ entry = "main"
    /\ pc = "done"
    /\ writes = 1
    /\ Len(file.rows) = 6
    /\ Len(dimension_tuples) = 3

\* a step changes the frame of one sub-request only, and only of one that is
\* running and has made fewer than 3 calls
CallBudgetStep ==
    /\ \A i \in DOMAIN dimTasks :
        (i \in DOMAIN dimTasks' /\ dimTasks'[i] # dimTasks[i])
            => /\ dimTasks[i].status = "running"
               /\ dimTasks[i].attempt < 3
               /\ \A k \in DOMAIN dimTasks \ {i} : dimTasks'[k] = dimTasks[k]
    /\ \A i \in DOMAIN qTasks :
        (i \in DOMAIN qTasks' /\ qTasks'[i] # qTasks[i])
            => /\ qTasks[i].status = "running"
               /\ qTasks[i].attempt < 3
               /\ \A k \in DOMAIN qTasks \ {i} : qTasks'[k] = qTasks[k]

\* the calls a running sub-request has made and lost are fewer than 3, the first
\* pool has 5 sub-requests and the second one per unique tuple
CallBudget ==
    /\ Len(dimTasks) \in {0, 5}
    /\ Len(qTasks) \in {0, Len(dimension_tuples)}
    /\ \A i \in DOMAIN dimTasks : dimTasks[i].attempt < 3
    /\ \A i \in DOMAIN qTasks : qTasks[i].attempt < 3

\* C20: every run of main ends, whatever fails, and no sub-request makes more
\* than 3 calls: 15 at most in the first pool, 3 per unique tuple in the second.
C20_TerminatesWithinBudget ==
    /\ <>(pc = "done")
    /\ [][CallBudgetStep]_vars
    /\ []CallBudget

\* a run that ended after one tuple's sub-request used up its three calls
C20_Witness ==
    /\ entry = "main"
    /\ pc = "done"
    /\ hasKey
    /\ "Error generating queries for tuple" \in printed
    /\ writes = 1

--------------------------------------------------------------------------
(* Independence of the completion order (Spec) *)

QueryValues == UNION {Range(q) : q \in QueryLists}

\* how many records carry tuple t with query q
RecordedCount(t, q) ==
    Cardinality({j \in DOMAIN all_queries :
                    all_queries[j].dimension_tuple = t /\ all_queries[j].query = q})

\* how many times the sub-request of tuple i answered query q, once its
\* future has been handled
ProducedCount(i, q) ==
    IF i \in processed
    THEN Cardinality({k \in DOMAIN qTasks[i].result.queries : qTasks[i].result.queries[k] = q})
    ELSE 0

\* C21: in whatever order the futures are handed out, the records carrying a
\* tuple are, as a multiset, the queries its own sub-request produced, so the
\* multiset of (tuple, query) pairs depends on the sub-requests' answers only.
C21_QueriesKeepTheirTuple ==
    (entry = "main" /\ pc \in {"q_loop", "q_return"})
        => /\ \A i \in DOMAIN qTasks :
                \A q \in QueryValues :
                    RecordedCount(dimension_tuples[i], q) = ProducedCount(i, q)
           /\ \A j \in DOMAIN all_queries :
                /\ all_queries[j].dimension_tuple \in Range(dimension_tuples)
                /\ all_queries[j].query \in QueryValues

\* the last tuple's future was handed out first; the first tuple gave one
\* query and the last gave five
C21_Witness ==
    /\ pc = "q_return"
    /\ Len(dimension_tuples) = 3
    /\ Len(all_queries) = 6
    /\ all_queries[1].dimension_tuple = dimension_tuples[3]
    /\ all_queries[6].dimension_tuple = dimension_tuples[1]
    /\ qTasks[2].result.queries = <<>>

\* the sub-results of the five futures in submission order
SubmissionOrder == [i \in DOMAIN dimTasks |-> dimTasks[i].result]

\* the tuples of the five sub-results, one after the other in submission order
Submitted == ExtendAll(SubmissionOrder)

\* the first position of tuple t in the sequence s
FirstIndex(s, t) == CHOOSE k \in DOMAIN s : s[k] = t /\ \A m \in 1..(k - 1) : s[m] # t

\* C22: the sub-results are gathered in submission order whatever the order in
\* which the sub-requests complete; the sequence returned is fixed by the five
\* answers: the distinct tuples in the order of their first appearance in the
\* submission-order concatenation, or [] when a sub-request failed.
C22_GatherInSubmissionOrder ==
    /\ pc \in {"dim_gather", "dim_exit", "dim_return"}
        => /\ Len(responses) <= Len(dimTasks)
           /\ \A k \in DOMAIN responses : responses[k] = dimTasks[k].result
    /\ (pc = "dim_return" /\ RaisedTasks(dimTasks) = {})
        => /\ Range(dimension_tuples) = Range(Submitted)
           /\ \A a, b \in DOMAIN dimension_tuples :
                a < b => FirstIndex(Submitted, dimension_tuples[a])
                            < FirstIndex(Submitted, dimension_tuples[b])
    /\ (pc = "dim_return" /\ RaisedTasks(dimTasks) # {}) => dimension_tuples = <<>>

\* the first sub-request answered T2, T3, T2 and the second T1, T2: the result
\* starts with the first sub-request's tuples
C22_Witness ==
    /\ pc = "dim_return"
    /\ RaisedTasks(dimTasks) = {}
    /\ dimTasks[1].result.tuples = <<T2, T3, T2>>
    /\ dimTasks[2].result.tuples = <<T1, T2>>
    /\ dimension_tuples = <<T2, T3, T1>>

====
